---- MODULE Spec2Model ----
(***************************************************************************)
(* Model of src/main.py: the instant-game expected-value pipeline.         *)
(*                                                                         *)
(* Numbers.  Python floats are modelled as exact rationals <<n, d>> with   *)
(* d > 0 in lowest terms; a zero denominator stands for the non-finite     *)
(* values numpy produces on a division by zero (<<1,0>> = inf,             *)
(* <<-1,0>> = -inf, <<0,0>> = nan).  Rounding of the binary64 format is    *)
(* not modelled.                                                           *)
(*                                                                         *)
(* Strings.  The strings the program parses (ticket price, overall odds,   *)
(* prize value cells) are sequences of one-character strings, so that      *)
(* str.split, str.replace and float() are computed character by character. *)
(***************************************************************************)
EXTENDS Integers, Sequences, FiniteSets, TLC

\* ------------------------------------------------------------------------
\* Bounds
\* ------------------------------------------------------------------------

\* Largest number of game URLs returned by all_urls() in one run.
MaxGames == 2

\* ------------------------------------------------------------------------
\* Rational arithmetic (the float operations used by main.py)
\* ------------------------------------------------------------------------

Abs(x) == IF x < 0 THEN -x ELSE x

Sign(x) == IF x < 0 THEN -1 ELSE IF x = 0 THEN 0 ELSE 1

RECURSIVE Gcd(_, _)
Gcd(a, b) == IF b = 0 THEN a ELSE Gcd(b, a % b)

NaN == <<0, 0>>

IsFinite(r) == r[2] # 0

\* pd.isna / pd.notna on a float
IsNaN(r) == r = NaN

Norm(n, d) ==
    IF d = 0 THEN <<Sign(n), 0>>
    ELSE LET g == Gcd(Abs(n), Abs(d))
             s == Sign(d)
         IN  <<(s * n) \div g, (s * d) \div g>>

R(n) == <<n, 1>>

RNeg(a) == <<-a[1], a[2]>>

RAdd(a, b) ==
    IF IsFinite(a) /\ IsFinite(b) THEN Norm(a[1] * b[2] + b[1] * a[2], a[2] * b[2])
    ELSE IF IsFinite(a) THEN b
    ELSE IF IsFinite(b) THEN a
    ELSE IF a = b THEN a ELSE NaN

RSub(a, b) == RAdd(a, RNeg(b))

RMul(a, b) ==
    IF IsFinite(a) /\ IsFinite(b) THEN Norm(a[1] * b[1], a[2] * b[2])
    ELSE <<Sign(a[1]) * Sign(b[1]), 0>>

\* numpy float division: x / 0 is inf, -inf or nan, never an exception
RDiv(a, b) ==
    IF IsFinite(a) /\ IsFinite(b) THEN Norm(a[1] * b[2], a[2] * b[1])
    ELSE IF IsFinite(b) THEN <<Sign(a[1]) * Sign(b[1]), 0>>
    ELSE IF IsFinite(a) THEN R(0)
    ELSE NaN

\* float comparisons: every comparison with nan is false
RLt(a, b) ==
    /\ ~IsNaN(a) /\ ~IsNaN(b)
    /\ IF IsFinite(a) /\ IsFinite(b) THEN a[1] * b[2] < b[1] * a[2]
       ELSE IF IsFinite(a) THEN b[1] > 0
       ELSE IF IsFinite(b) THEN a[1] < 0
       ELSE a[1] < b[1]

RGt(a, b) == RLt(b, a)

RGe(a, b) == ~IsNaN(a) /\ ~IsNaN(b) /\ ~RLt(a, b)

\* left-to-right sum of a sequence of numbers, starting from 0
RECURSIVE RSum(_)
RSum(s) == IF s = <<>> THEN R(0) ELSE RAdd(RSum(SubSeq(s, 1, Len(s) - 1)), s[Len(s)])

\* ------------------------------------------------------------------------
\* Strings as character sequences: str.replace, str.split, float()
\* ------------------------------------------------------------------------

Digits == {"0", "1", "2", "3", "4", "5", "6", "7", "8", "9"}

DigitVal(c) ==
    CASE c = "0" -> 0 [] c = "1" -> 1 [] c = "2" -> 2 [] c = "3" -> 3
      [] c = "4" -> 4 [] c = "5" -> 5 [] c = "6" -> 6 [] c = "7" -> 7
      [] c = "8" -> 8 [] c = "9" -> 9

\* s.replace(c, '') for every character c of the set cs
RemoveChars(s, cs) == SelectSeq(s, LAMBDA c : c \notin cs)

\* position of the first ":" at or after position i, or 0 when there is none
RECURSIVE FirstColon(_, _)
FirstColon(s, i) ==
    IF i > Len(s) THEN 0
    ELSE IF s[i] = ":" THEN i
    ELSE FirstColon(s, i + 1)

\* s.split(":")[1]: the token between the first and the second colon.
\* ok = FALSE stands for the IndexError raised when s holds no colon.
SplitSecond(s) ==
    LET c1 == FirstColon(s, 1) IN
    IF c1 = 0 THEN [ok |-> FALSE, tok |-> <<>>]
    ELSE LET c2 == FirstColon(s, c1 + 1)
             e  == IF c2 = 0 THEN Len(s) ELSE c2 - 1
         IN  [ok |-> TRUE, tok |-> SubSeq(s, c1 + 1, e)]

RECURSIVE LStrip(_)
LStrip(s) == IF s # <<>> /\ s[1] = " " THEN LStrip(Tail(s)) ELSE s

RECURSIVE RStrip(_)
RStrip(s) ==
    IF s # <<>> /\ s[Len(s)] = " " THEN RStrip(SubSeq(s, 1, Len(s) - 1)) ELSE s

RECURSIVE DigitsVal(_)
DigitsVal(s) ==
    IF s = <<>> THEN 0
    ELSE 10 * DigitsVal(SubSeq(s, 1, Len(s) - 1)) + DigitVal(s[Len(s)])

RECURSIVE Pow10(_)
Pow10(k) == IF k = 0 THEN 1 ELSE 10 * Pow10(k - 1)

RECURSIVE FirstDot(_, _)
FirstDot(s, i) ==
    IF i > Len(s) THEN 0
    ELSE IF s[i] = "." THEN i
    ELSE FirstDot(s, i + 1)

\* float(s) for decimal literals: surrounding blanks are ignored, an optional
\* sign, then digits with at most one point.  ok = FALSE is the ValueError.
ParseFloat(s) ==
    LET t    == RStrip(LStrip(s))
        neg  == t # <<>> /\ t[1] = "-"
        body == IF t # <<>> /\ t[1] \in {"-", "+"} THEN Tail(t) ELSE t
        dot  == FirstDot(body, 1)
        ds   == RemoveChars(body, {"."})
        good == /\ ds # <<>>
                /\ \A i \in 1..Len(ds) : ds[i] \in Digits
                /\ Len(body) - Len(ds) <= 1
    IN  IF ~good THEN [ok |-> FALSE, val |-> NaN]
        ELSE LET k == IF dot = 0 THEN 0 ELSE Len(body) - dot
                 v == Norm(DigitsVal(ds), Pow10(k))
             IN  [ok |-> TRUE, val |-> IF neg THEN RNeg(v) ELSE v]

\* ------------------------------------------------------------------------
\* calculate_expected_value and calculate_ev_details
\* A table (current_df) is a sequence of rows [pv, rc, oc]: prize value (a
\* number once line 157 has run), remaining prize count, original prize count.
\* ------------------------------------------------------------------------

\* lines 62 and 65: probabilities and prize_contributions, element-wise
prize_contributions(current_df, current_tickets) ==
    [i \in 1..Len(current_df) |->
        RMul(current_df[i].pv, RDiv(R(current_df[i].rc), current_tickets))]

\* calculate_expected_value without the guard of line 54
calculate_expected_value_unguarded(current_df, current_tickets, ticket_price_num) ==
    RSub(RSum(prize_contributions(current_df, current_tickets)), ticket_price_num)

calculate_expected_value(current_df, current_tickets, ticket_price_num) ==
    IF current_tickets = R(0) THEN RNeg(ticket_price_num)
    ELSE RSub(RSum(prize_contributions(current_df, current_tickets)), ticket_price_num)

\* one pass of the for loop at line 87 over rows i..Len(current_df)
RECURSIVE ev_details_loop(_, _, _, _, _)
ev_details_loop(current_df, current_tickets, i, ev_breakdown, total_ev) ==
    IF i > Len(current_df) THEN [ev_breakdown |-> ev_breakdown, total_ev |-> total_ev]
    ELSE LET prize_value     == current_df[i].pv
             remaining_count == current_df[i].rc
             probability     == RDiv(R(remaining_count), current_tickets)
             contribution    == RMul(prize_value, probability)
         IN  ev_details_loop(current_df, current_tickets, i + 1,
                 Append(ev_breakdown, [prize_value     |-> prize_value,
                                       remaining_count |-> remaining_count,
                                       probability     |-> probability,
                                       contribution    |-> contribution]),
                 RAdd(total_ev, contribution))

\* calculate_ev_details returning total_ev, the ticket cost not subtracted
calculate_ev_details_no_cost(current_df, current_tickets, ticket_price_num) ==
    IF current_tickets = R(0)
    THEN [ev_breakdown |-> <<>>, final_ev |-> RNeg(ticket_price_num)]
    ELSE LET l == ev_details_loop(current_df, current_tickets, 1, <<>>, R(0))
         IN  [ev_breakdown |-> l.ev_breakdown, final_ev |-> l.total_ev]

calculate_ev_details(current_df, current_tickets, ticket_price_num) ==
    IF current_tickets = R(0)
    THEN [ev_breakdown |-> <<>>, final_ev |-> RNeg(ticket_price_num)]
    ELSE LET l == ev_details_loop(current_df, current_tickets, 1, <<>>, R(0))
         IN  [ev_breakdown |-> l.ev_breakdown,
              final_ev     |-> RSub(l.total_ev, ticket_price_num)]

\* line 204 with the guard "!= 0" in place of "> 0"
roi_of_nonzero(ev, ticket_price_num) ==
    IF ticket_price_num # R(0)
    THEN RMul(RDiv(ev, ticket_price_num), R(100))
    ELSE R(0)

\* line 204
roi_of(ev, ticket_price_num) ==
    IF RGt(ticket_price_num, R(0))
    THEN RMul(RDiv(ev, ticket_price_num), R(100))
    ELSE R(0)

\* ------------------------------------------------------------------------
\* The pages read by pd.read_html (line 117)
\* ------------------------------------------------------------------------

MetaKeys == {"Ticket Price", "Top Prize", "Overall Odds"}

required_columns == {"Prize Value", "Remaining Prize Count", "Original Prize Count"}

\* prize tables as published: Prize Value cells are text
Tab2 == << [pv |-> <<"$", "2">>, rc |-> 2, oc |-> 3],
           [pv |-> <<"$", "1", "0">>, rc |-> 1, oc |-> 2] >>

Tab1 == << [pv |-> <<"$", "1", ",", "0", "0", "0">>, rc |-> 1, oc |-> 4] >>

TabSoldOut == << [pv |-> <<"$", "5">>, rc |-> 0, oc |-> 2],
                 [pv |-> <<"$", "2">>, rc |-> 0, oc |-> 1] >>

TabBadValue == << [pv |-> <<"$", "2">>, rc |-> 1, oc |-> 1],
                  [pv |-> <<"T", "B", "D">>, rc |-> 1, oc |-> 1] >>

PriceStrings ==
    << <<"$", "0">>, <<"$", "1", ".", "5", "0">>, <<"-", "$", "1">>,
       <<"f", "r", "e", "e">> >>

OddsStrings ==
    << <<"1", " ", ":", " ", "1", "0">>, <<"1", ":", "4", ".", "5">>, <<"1", ":", "0">>,
       <<"1", ":", "-", "2">>, <<"b", "a", "d">>, <<"1", ":", "a", "b", "c">> >>

Tables == <<Tab1, TabSoldOut, TabBadValue>>

\* metadata tables and prize tables with something missing
KeySets ==
    << {"Top Prize", "Overall Odds"}, {"Ticket Price", "Overall Odds"},
       {"Ticket Price", "Top Prize"}, {} >>

ColumnSets ==
    << {"Prize Value", "Original Prize Count"}, {"Remaining Prize Count"}, {} >>

BasePage ==
    [ fetch_ok     |-> TRUE,
      keys         |-> MetaKeys,
      ticket_price |-> <<"$", "2">>,
      top_prize    |-> "$10",
      odds         |-> <<"1", ":", "1">>,
      columns      |-> required_columns,
      rc_numeric   |-> TRUE,
      oc_numeric   |-> TRUE,
      rows         |-> Tab2 ]

\* The pages a run can meet, numbered: the base page, the base page with one
\* aspect varied, and combinations of a missing metadata key with a missing
\* column or an unconvertible prize value, and of an unusual price with an
\* unusual table or odds string.
PageList ==
    <<BasePage>>
    \o [i \in 1..Len(PriceStrings) |-> [BasePage EXCEPT !.ticket_price = PriceStrings[i]]]
    \o [i \in 1..Len(OddsStrings) |-> [BasePage EXCEPT !.odds = OddsStrings[i]]]
    \o [i \in 1..Len(Tables) |-> [BasePage EXCEPT !.rows = Tables[i]]]
    \o [i \in 1..Len(KeySets) |-> [BasePage EXCEPT !.keys = KeySets[i]]]
    \o [i \in 1..Len(ColumnSets) |-> [BasePage EXCEPT !.columns = ColumnSets[i]]]
    \o << [BasePage EXCEPT !.keys = KeySets[2], !.columns = ColumnSets[1]],
          [BasePage EXCEPT !.keys = KeySets[3], !.columns = ColumnSets[3],
                           !.rows = TabBadValue],
          [BasePage EXCEPT !.columns = ColumnSets[2], !.rows = TabBadValue],
          [BasePage EXCEPT !.ticket_price = <<"$", "0">>, !.rows = TabSoldOut],
          [BasePage EXCEPT !.ticket_price = <<"-", "$", "1">>, !.odds = <<"1", ":", "-", "2">>],
          [BasePage EXCEPT !.fetch_ok = FALSE],
          [BasePage EXCEPT !.rc_numeric = FALSE],
          [BasePage EXCEPT !.oc_numeric = FALSE] >>

PageIds == 1..Len(PageList)

Pages == {PageList[k] : k \in PageIds}

\* ------------------------------------------------------------------------
\* One iteration of the main loop (lines 112-228), step by step
\* ------------------------------------------------------------------------

\* line 157: strip "$" and "," from every Prize Value cell, then astype(float)
PrizeValueCell(cell) == ParseFloat(RemoveChars(cell, {"$", ","}))

PrizeValuesConvert(p) == \A i \in 1..Len(p.rows) : PrizeValueCell(p.rows[i].pv).ok

\* current_df after line 157
current_df_of(p) ==
    [i \in 1..Len(p.rows) |->
        [pv |-> PrizeValueCell(p.rows[i].pv).val, rc |-> p.rows[i].rc, oc |-> p.rows[i].oc]]

\* line 172: float(odds.split(":")[1])
odd_calculator_of(odds) ==
    LET t == SplitSecond(odds) IN
    IF t.ok THEN ParseFloat(t.tok) ELSE [ok |-> FALSE, val |-> NaN]

\* line 179: float(ticket_price.replace("$", ''))
ticket_price_num_of(ticket_price) == ParseFloat(RemoveChars(ticket_price, {"$"}))

\* lines 171-182 raise nothing
TicketCountsCompute(p) ==
    /\ odd_calculator_of(p.odds).ok
    /\ p.oc_numeric
    /\ ticket_price_num_of(p.ticket_price).ok

\* lines 173-177
total_original_prizes(current_df) == RSum([i \in 1..Len(current_df) |-> R(current_df[i].oc)])

total_remaining_prizes(current_df) == RSum([i \in 1..Len(current_df) |-> R(current_df[i].rc)])

\* lines 200-201: remaining counts of the tiers with Prize Value >= ticket price
money_back_prizes_of(current_df, ticket_price_num) ==
    RSum([i \in 1..Len(current_df) |->
            IF RGe(current_df[i].pv, ticket_price_num) THEN R(current_df[i].rc) ELSE R(0)])

\* lines 164 and 220: sum of Prize Value * Remaining Prize Count
remaining_prize_amount_sum(current_df) ==
    RSum([i \in 1..Len(current_df) |-> RMul(current_df[i].pv, R(current_df[i].rc))])

\* Stage with the column check moved in front of the metadata lookups
Stage_columns_first(p) ==
    IF ~p.fetch_ok THEN "Error processing"
    ELSE IF required_columns \ p.columns # {} THEN "Missing required columns"
    ELSE IF "Ticket Price" \notin p.keys THEN "Could not find Ticket Price"
    ELSE IF "Top Prize" \notin p.keys THEN "Could not find Top Prize"
    ELSE IF "Overall Odds" \notin p.keys THEN "Could not find Overall Odds"
    ELSE IF ~PrizeValuesConvert(p) THEN "Error converting Prize Value"
    ELSE IF ~p.rc_numeric THEN "Error calculating Remaining Prize Amount"
    ELSE IF ~TicketCountsCompute(p) THEN "Error calculating ticket counts"
    ELSE "ok"

\* The message printed by the first handler that fires for page p, in the
\* order of the statements of the loop body; "ok" when line 224 is reached.
\* The handler at lines 206-208 has no case: once lines 156-182 have run
\* without an exception every value used at lines 185-204 is a number, and
\* float arithmetic on numbers raises nothing.
Stage(p) ==
    IF ~p.fetch_ok THEN "Error processing"
    ELSE IF "Ticket Price" \notin p.keys THEN "Could not find Ticket Price"
    ELSE IF "Top Prize" \notin p.keys THEN "Could not find Top Prize"
    ELSE IF "Overall Odds" \notin p.keys THEN "Could not find Overall Odds"
    ELSE IF required_columns \ p.columns # {} THEN "Missing required columns"
    ELSE IF ~PrizeValuesConvert(p) THEN "Error converting Prize Value"
    ELSE IF ~p.rc_numeric THEN "Error calculating Remaining Prize Amount"
    ELSE IF ~TicketCountsCompute(p) THEN "Error calculating ticket counts"
    ELSE "ok"

\* lines 172-224: the record built for a page that passes every step
game_data_of(name, p) ==
    LET current_df       == current_df_of(p)
        odd_calculator   == odd_calculator_of(p.odds).val
        original_tickets == RMul(total_original_prizes(current_df), odd_calculator)
        current_tickets  == RMul(total_remaining_prizes(current_df), odd_calculator)
        ticket_price_num == ticket_price_num_of(p.ticket_price).val
        ev               == calculate_expected_value(current_df, current_tickets, ticket_price_num)
        details          == calculate_ev_details(current_df, current_tickets, ticket_price_num)
    IN  [ name              |-> name,
          ticket_price      |-> ticket_price_num,
          top_prize         |-> p.top_prize,
          odds              |-> p.odds,
          original_tickets  |-> original_tickets,
          current_tickets   |-> current_tickets,
          expected_value    |-> ev,
          roi               |-> roi_of(ev, ticket_price_num),
          money_back_prizes |-> money_back_prizes_of(current_df, ticket_price_num),
          total_prize_pool  |-> remaining_prize_amount_sum(current_df),
          ev_breakdown      |-> details.ev_breakdown ]

\* ------------------------------------------------------------------------
\* State
\* ------------------------------------------------------------------------

VARIABLES
    urls,          \* number of game URLs found by all_urls() (line 109); the
                   \* URLs are distinct (line 32) and game i stands for the name
                   \* derived from the i-th URL (lines 114-115)
    page,          \* PageList[page[i]]: what pd.read_html returned for game i
    item,          \* position of the loop at line 112
    games_data,    \* the list built at lines 110 and 224
    printed,       \* the diagnostics written by the handlers, in order
    pc,            \* where the script is
    df_sorted,     \* line 234
    positive_ev,   \* line 264
    summary,       \* lines 279-284
    call_args,     \* arguments of the latest calls at lines 191 and 194
    expected_value, \* result of calculate_expected_value (line 191)
    ev_check       \* result of calculate_ev_details (line 194)

vars == <<urls, page, item, games_data, printed, pc, df_sorted, positive_ev, summary,
          call_args, expected_value, ev_check>>

NoArgs == [current_df |-> <<>>, current_tickets |-> R(0), ticket_price_num |-> R(0)]

NoDetails == [ev_breakdown |-> <<>>, final_ev |-> NaN]

NoSummary == [total |-> 0, best_ev |-> NaN, worst_ev |-> NaN, average_ev |-> NaN,
              best_roi |-> NaN, average_roi |-> NaN]

Init ==
    /\ urls \in 0..MaxGames
    /\ page = <<>>
    /\ item = 1
    /\ games_data = <<>>
    /\ printed = <<>>
    /\ pc = "read_html"
    /\ df_sorted = <<>>
    /\ positive_ev = <<>>
    /\ summary = NoSummary
    /\ call_args = NoArgs
    /\ expected_value = NaN
    /\ ev_check = NoDetails

\* lines 112-117: the next URL is taken and its page is read
ReadHtml ==
    /\ pc = "read_html"
    /\ item <= urls
    /\ \E k \in PageIds : page' = Append(page, k)
    /\ pc' = "body"
    /\ UNCHANGED <<urls, item, games_data, printed, df_sorted, positive_ev, summary,
                   call_args, expected_value, ev_check>>

\* the handler with message msg fires for the current game
Fails(msg) ==
    /\ pc = "body"
    /\ Stage(PageList[page[item]]) = msg

\* a handler prints its message and continues with the next game
Skip(msg) ==
    /\ printed' = Append(printed, [name |-> item, msg |-> msg])
    /\ item' = item + 1
    /\ pc' = "read_html"
    /\ UNCHANGED <<urls, page, games_data, df_sorted, positive_ev, summary,
                   call_args, expected_value, ev_check>>

\* lines 226-228: read_html raised, or the page holds fewer than two tables
ErrorProcessing ==
    /\ Fails("Error processing")
    /\ Skip("Error processing")

\* lines 130-132
NoTicketPrice ==
    /\ Fails("Could not find Ticket Price")
    /\ Skip("Could not find Ticket Price")

\* lines 136-138
NoTopPrize ==
    /\ Fails("Could not find Top Prize")
    /\ Skip("Could not find Top Prize")

\* the Overall Odds handler leaving the loop (break) instead of continuing
NoOverallOdds_break ==
    /\ Fails("Could not find Overall Odds")
    /\ printed' = Append(printed, [name |-> item, msg |-> "Could not find Overall Odds"])
    /\ item' = urls + 1
    /\ pc' = "read_html"
    /\ UNCHANGED <<urls, page, games_data, df_sorted, positive_ev, summary,
                   call_args, expected_value, ev_check>>

\* lines 142-144
NoOverallOdds ==
    /\ Fails("Could not find Overall Odds")
    /\ Skip("Could not find Overall Odds")

\* the missing-columns handler continuing without a message
MissingColumns_silent ==
    /\ Fails("Missing required columns")
    /\ item' = item + 1
    /\ pc' = "read_html"
    /\ UNCHANGED <<urls, page, games_data, printed, df_sorted, positive_ev, summary,
                   call_args, expected_value, ev_check>>

\* lines 150-153
MissingColumns ==
    /\ Fails("Missing required columns")
    /\ Skip("Missing required columns")

\* lines 158-160
PrizeValueError ==
    /\ Fails("Error converting Prize Value")
    /\ Skip("Error converting Prize Value")

\* lines 166-168
RemainingAmountError ==
    /\ Fails("Error calculating Remaining Prize Amount")
    /\ Skip("Error calculating Remaining Prize Amount")

\* the ticket-count handler appending the fields gathered so far
TicketCountError_partial ==
    /\ Fails("Error calculating ticket counts")
    /\ printed' = Append(printed, [name |-> item, msg |-> "Error calculating ticket counts"])
    /\ games_data' = Append(games_data, [name      |-> item,
                                         top_prize |-> PageList[page[item]].top_prize,
                                         odds      |-> PageList[page[item]].odds])
    /\ item' = item + 1
    /\ pc' = "read_html"
    /\ UNCHANGED <<urls, page, df_sorted, positive_ev, summary,
                   call_args, expected_value, ev_check>>

\* lines 180-182
TicketCountError ==
    /\ Fails("Error calculating ticket counts")
    /\ Skip("Error calculating ticket counts")

\* lines 184-224: every step succeeded; the record is appended
AppendGame ==
    /\ Fails("ok")
    /\ \E g \in {game_data_of(item, PageList[page[item]])} :
           /\ games_data' = Append(games_data, g)
           /\ call_args' = [current_df       |-> current_df_of(PageList[page[item]]),
                            current_tickets  |-> g.current_tickets,
                            ticket_price_num |-> g.ticket_price]
           /\ expected_value' = g.expected_value
           /\ ev_check' = calculate_ev_details(current_df_of(PageList[page[item]]),
                              g.current_tickets, g.ticket_price)
    /\ item' = item + 1
    /\ pc' = "read_html"
    /\ UNCHANGED <<urls, page, printed, df_sorted, positive_ev, summary>>

\* ------------------------------------------------------------------------
\* After the loop: DataFrame, sort_values, report (lines 230-284)
\* ------------------------------------------------------------------------

Perms(n) == {f \in [1..n -> 1..n] : \A i, j \in 1..n : i # j => f[i] # f[j]}

\* descending by Expected Value, nan last (na_position = 'last')
IsSortedDescending(s) ==
    \A i \in 1..(Len(s) - 1) :
        /\ ~RLt(s[i].expected_value, s[i + 1].expected_value)
        /\ IsNaN(s[i].expected_value) => IsNaN(s[i + 1].expected_value)

\* sort_values with ascending=True
sort_values_ascending(rows) ==
    {s \in {[i \in 1..Len(rows) |-> rows[f[i]]] : f \in Perms(Len(rows))} :
        \A i \in 1..(Len(s) - 1) : ~RLt(s[i + 1].expected_value, s[i].expected_value)}

\* df.sort_values('Expected Value', ascending=False) with the default
\* kind='quicksort', which is not a stable sort: rows with equal keys may come
\* out in any order, so every descending arrangement is a possible result.
sort_values(rows) ==
    {s \in {[i \in 1..Len(rows) |-> rows[f[i]]] : f \in Perms(Len(rows))} :
        IsSortedDescending(s)}

Column(rows, Field(_)) == [i \in 1..Len(rows) |-> Field(rows[i])]

NotNaN(vals) == SelectSeq(vals, LAMBDA v : ~IsNaN(v))

\* Series.max(), .min(), .mean(): nan is skipped, nan when nothing is left
SeriesMax(vals) ==
    LET v == NotNaN(vals) IN
    IF v = <<>> THEN NaN
    ELSE v[CHOOSE i \in 1..Len(v) : \A j \in 1..Len(v) : ~RLt(v[i], v[j])]

SeriesMin(vals) ==
    LET v == NotNaN(vals) IN
    IF v = <<>> THEN NaN
    ELSE v[CHOOSE i \in 1..Len(v) : \A j \in 1..Len(v) : ~RLt(v[j], v[i])]

SeriesMean(vals) ==
    LET v == NotNaN(vals) IN
    IF v = <<>> THEN NaN ELSE RDiv(RSum(v), R(Len(v)))

EVOf(g) == g.expected_value

ROIOf(g) == g.roi

\* lines 231-234 when games_data is empty: pd.DataFrame([]) has no columns
\* and sort_values('Expected Value') raises KeyError; the script stops there.
SortKeyError ==
    /\ pc = "read_html"
    /\ item > urls
    /\ games_data = <<>>
    /\ pc' = "KeyError"
    /\ UNCHANGED <<urls, page, item, games_data, printed, df_sorted, positive_ev, summary,
                   call_args, expected_value, ev_check>>

\* lines 231-234 otherwise
SortValues ==
    /\ pc = "read_html"
    /\ item > urls
    /\ games_data # <<>>
    /\ df_sorted' \in sort_values(games_data)
    /\ pc' = "sorted"
    /\ UNCHANGED <<urls, page, item, games_data, printed, positive_ev, summary,
                   call_args, expected_value, ev_check>>

\* lines 236-284
Report ==
    /\ pc = "sorted"
    /\ positive_ev' = SelectSeq(df_sorted, LAMBDA g : RGt(g.expected_value, R(0)))
    /\ summary' = [ total       |-> Len(df_sorted),
                    best_ev     |-> SeriesMax(Column(df_sorted, EVOf)),
                    worst_ev    |-> SeriesMin(Column(df_sorted, EVOf)),
                    average_ev  |-> SeriesMean(Column(df_sorted, EVOf)),
                    best_roi    |-> SeriesMax(Column(df_sorted, ROIOf)),
                    average_roi |-> SeriesMean(Column(df_sorted, ROIOf)) ]
    /\ pc' = "done"
    /\ UNCHANGED <<urls, page, item, games_data, printed, df_sorted,
                   call_args, expected_value, ev_check>>

Next ==
    \/ ReadHtml
    \/ ErrorProcessing
    \/ NoTicketPrice
    \/ NoTopPrize
    \/ NoOverallOdds
    \/ MissingColumns
    \/ PrizeValueError
    \/ RemainingAmountError
    \/ TicketCountError
    \/ AppendGame
    \/ SortKeyError
    \/ SortValues
    \/ Report

Spec == Init /\ [][Next]_vars

\* ------------------------------------------------------------------------
\* The two calculators on their own: arguments drawn from bounded sets
\* ------------------------------------------------------------------------

\* Largest number of prize tiers of a table handed to the calculators.
MaxTiers == 2

TierValues == {R(0), R(2), R(10), <<3, 2>>}

TierCounts == {0, 1, 3}

TierRows == {[pv |-> v, rc |-> c, oc |-> c] : v \in TierValues, c \in TierCounts}

TierTables == UNION {[1..n -> TierRows] : n \in 0..MaxTiers}

TicketCounts == {R(0), R(1), R(4), <<9, 2>>, R(-2)}

TicketPrices == {R(0), R(2), <<3, 2>>, R(-1)}

InitEV ==
    /\ urls = 0
    /\ page = <<>>
    /\ item = 1
    /\ games_data = <<>>
    /\ printed = <<>>
    /\ pc = "call"
    /\ df_sorted = <<>>
    /\ positive_ev = <<>>
    /\ summary = NoSummary
    /\ call_args \in [current_df : TierTables, current_tickets : TicketCounts,
                      ticket_price_num : TicketPrices]
    /\ expected_value = NaN
    /\ ev_check = NoDetails

\* a call of calculate_expected_value
CallExpectedValue ==
    /\ pc = "call"
    /\ expected_value' = calculate_expected_value(call_args.current_df,
                             call_args.current_tickets, call_args.ticket_price_num)
    /\ pc' = "call_details"
    /\ UNCHANGED <<urls, page, item, games_data, printed, df_sorted, positive_ev, summary,
                   call_args, ev_check>>

\* a call of calculate_ev_details on the same arguments
CallEvDetails ==
    /\ pc = "call_details"
    /\ ev_check' = calculate_ev_details(call_args.current_df,
                       call_args.current_tickets, call_args.ticket_price_num)
    /\ pc' = "returned"
    /\ UNCHANGED <<urls, page, item, games_data, printed, df_sorted, positive_ev, summary,
                   call_args, expected_value>>

NextEV == CallExpectedValue \/ CallEvDetails

SpecEV == InitEV /\ [][NextEV]_vars

\* ------------------------------------------------------------------------
\* Properties
\* ------------------------------------------------------------------------

\* the games whose loop iteration is over
Processed == 1..(item - 1)

PageOf(i) == PageList[page[i]]

InPortfolio(i) == \E j \in 1..Len(games_data) : games_data[j].name = i

\* the messages printed for game i, in order
DiagnosticsOf(i) ==
    LET d == SelectSeq(printed, LAMBDA e : e.name = i)
    IN  [j \in 1..Len(d) |-> d[j].msg]

\* page p is fetched and passes every validation and computation step
PassesAllChecks(p) ==
    /\ p.fetch_ok
    /\ MetaKeys \subseteq p.keys
    /\ required_columns \subseteq p.columns
    /\ PrizeValuesConvert(p)
    /\ p.rc_numeric
    /\ TicketCountsCompute(p)

\* C1: a game whose metadata lacks "Overall Odds" is never in games_data, and
\* the loop goes on after it: every later game before the loop position has
\* been read, and is in games_data when it passes all checks.
C1_SkippedGame ==
    \A i \in Processed :
        /\ i \in DOMAIN page
        /\ "Overall Odds" \notin PageOf(i).keys =>
               /\ ~InPortfolio(i)
               /\ \A j \in (i + 1)..(item - 1) :
                      /\ j \in DOMAIN page
                      /\ PassesAllChecks(PageOf(j)) => InPortfolio(j)

\* C1 witness: the Overall Odds handler fired for game 1 and game 2 was
\* collected afterwards.
C1_Witness ==
    /\ item > urls
    /\ urls >= 2
    /\ DiagnosticsOf(1) = <<"Could not find Overall Odds">>
    /\ InPortfolio(2)

C3_ZeroTickets ==
    (call_args.current_tickets = R(0) /\ Len(call_args.current_df) > 0) =>
        /\ pc \in {"call_details", "returned"} =>
               expected_value = <<-call_args.ticket_price_num[1], call_args.ticket_price_num[2]>>
        /\ pc = "returned" =>
               /\ ev_check.final_ev =
                      <<-call_args.ticket_price_num[1], call_args.ticket_price_num[2]>>
               /\ ev_check.ev_breakdown = <<>>

\* C3 witness: both calculators returned for zero tickets, a two-tier table
\* with prizes left and a positive price.
C3_Witness ==
    /\ pc = "returned"
    /\ call_args.current_tickets = R(0)
    /\ Len(call_args.current_df) = 2
    /\ call_args.current_df[1].rc > 0
    /\ call_args.ticket_price_num = R(2)
    /\ expected_value = R(-2)

\* C4 as stated: when no game produced a record the script does not end in
\* an error.
C4_RankingNeverFails == (item > urls /\ games_data = <<>>) => pc # "KeyError"

\* C5 as stated: a game whose odds string has no colon, a non-numeric second
\* token or a value <= 0 is excluded, and every record has tickets-per-prize
\* > 0 and ticket counts >= 0.
C5_OddsValidated ==
    /\ \A i \in Processed :
           (~odd_calculator_of(PageOf(i).odds).ok \/ odd_calculator_of(PageOf(i).odds).val[1] <= 0) => ~InPortfolio(i)
    /\ \A j \in 1..Len(games_data) :
           /\ odd_calculator_of(games_data[j].odds).val[1] > 0
           /\ games_data[j].original_tickets[1] >= 0
           /\ games_data[j].current_tickets[1] >= 0

\* sum over the tiers of prize value * remaining count / current tickets
DirectSum(df, tickets) ==
    RSum([i \in 1..Len(df) |-> RDiv(RMul(df[i].pv, R(df[i].rc)), tickets)])

\* C6: the value of calculate_ev_details equals the value of
\* calculate_expected_value; with tickets # 0 both are the direct sum minus
\* the ticket price, and the breakdown has one entry per tier, in tier order.
C6_DetailsAgree ==
    pc = "returned" =>
        /\ ev_check.final_ev = expected_value
        /\ call_args.current_tickets # R(0) =>
               /\ expected_value =
                      RSub(DirectSum(call_args.current_df, call_args.current_tickets),
                           call_args.ticket_price_num)
               /\ Len(ev_check.ev_breakdown) = Len(call_args.current_df)
               /\ \A i \in 1..Len(call_args.current_df) :
                      LET b == ev_check.ev_breakdown[i]
                          r == call_args.current_df[i]
                      IN  /\ b.prize_value = r.pv
                          /\ b.remaining_count = r.rc
                          /\ b.probability = RDiv(R(r.rc), call_args.current_tickets)
                          /\ b.contribution =
                                 RDiv(RMul(r.pv, R(r.rc)), call_args.current_tickets)

\* C6 witness: both calculators returned for two different tiers, a
\* fractional ticket count and a positive price.
C6_Witness ==
    /\ pc = "returned"
    /\ Len(call_args.current_df) = 2
    /\ call_args.current_df[1].pv = R(10)
    /\ call_args.current_df[1].rc = 1
    /\ call_args.current_df[2].pv = <<3, 2>>
    /\ call_args.current_df[2].rc = 3
    /\ call_args.current_tickets = <<9, 2>>
    /\ call_args.ticket_price_num = R(2)
    /\ Len(ev_check.ev_breakdown) = 2
    /\ expected_value = <<11, 9>>

PositionIn(rows, name) == CHOOSE j \in 1..Len(rows) : rows[j].name = name

\* df_sorted holds exactly the records of games_data
IsPermutation ==
    /\ Len(df_sorted) = Len(games_data)
    /\ \A j \in 1..Len(games_data) : \E k \in 1..Len(df_sorted) : df_sorted[k] = games_data[j]

\* a[1]/a[2] >= b[1]/b[2] for finite values
AtLeast(a, b) == a[1] * b[2] >= b[1] * a[2]

Descending ==
    \A k \in 1..(Len(df_sorted) - 1) :
        AtLeast(df_sorted[k].expected_value, df_sorted[k + 1].expected_value)

PositiveExact ==
    pc = "done" =>
        /\ \A k \in 1..Len(df_sorted) :
               df_sorted[k].expected_value[1] > 0 <=>
                   \E m \in 1..Len(positive_ev) : positive_ev[m] = df_sorted[k]
        /\ \A m \in 1..Len(positive_ev) :
               \E k \in 1..Len(df_sorted) : positive_ev[m] = df_sorted[k]

\* C7 as stated: the portfolio is a permutation of the collected records in
\* descending order of expected value, records with equal expected value keep
\* their order of collection, and the positive-EV set is exactly the records
\* with expected value > 0.
C7_Original ==
    pc \in {"sorted", "done"} =>
        /\ IsPermutation
        /\ Descending
        /\ \A k, m \in 1..Len(df_sorted) :
               (k < m /\ df_sorted[k].expected_value = df_sorted[m].expected_value) =>
                   PositionIn(games_data, df_sorted[k].name)
                       < PositionIn(games_data, df_sorted[m].name)
        /\ PositiveExact

\* C7 amended: whenever sort_values has returned, the portfolio is a
\* permutation of the collected records in descending order of expected
\* value (the order of records with equal expected value is not fixed), and
\* the positive-EV set is exactly the records with expected value > 0.
C7_Amended ==
    pc \in {"sorted", "done"} =>
        /\ IsPermutation
        /\ Descending
        /\ PositiveExact

\* C7 witness: the report is out, the sort moved the second collected game in
\* front of the first, and exactly one of the two has a positive EV.
C7_Witness ==
    /\ pc = "done"
    /\ Len(games_data) = 2
    /\ df_sorted = <<games_data[2], games_data[1]>>
    /\ games_data[2].expected_value[1] > 0
    /\ games_data[1].expected_value[1] <= 0
    /\ positive_ev = <<games_data[2]>>

GameFields ==
    {"name", "ticket_price", "top_prize", "odds", "original_tickets", "current_tickets",
     "expected_value", "roi", "money_back_prizes", "total_prize_pool", "ev_breakdown"}

\* C8: every step leaves games_data alone or appends one record to it; every
\* element carries the complete field set; the iteration of a game that fails
\* a step appends nothing; collected records never change.
C8_AllOrNothing ==
    [][ /\ \A j \in 1..Len(games_data') : DOMAIN games_data'[j] = GameFields
        /\ Len(games_data') \in {Len(games_data), Len(games_data) + 1}
        /\ SubSeq(games_data', 1, Len(games_data)) = games_data
        /\ (item' # item /\ ~PassesAllChecks(PageOf(item))) => games_data' = games_data
        /\ (item' # item /\ PassesAllChecks(PageOf(item))) =>
               /\ Len(games_data') = Len(games_data) + 1
               /\ games_data'[Len(games_data')].name = item ]_vars

\* C8 witness: game 1 was collected, game 2 failed a computation step after
\* validation and left games_data as it was.
C8_Witness ==
    /\ item = 3
    /\ Len(games_data) = 1
    /\ games_data[1].name = 1
    /\ DOMAIN games_data[1] = GameFields
    /\ DiagnosticsOf(2) = <<"Error calculating ticket counts">>

\* the reason the validation order of the specification gives for page p:
\* metadata keys (ticket price, top prize, overall odds), then the columns,
\* then the prize-value coercion; "none" when these checks pass or nothing
\* was fetched
ExpectedReason(p) ==
    IF ~p.fetch_ok THEN "none"
    ELSE IF "Ticket Price" \notin p.keys THEN "Could not find Ticket Price"
    ELSE IF "Top Prize" \notin p.keys THEN "Could not find Top Prize"
    ELSE IF "Overall Odds" \notin p.keys THEN "Could not find Overall Odds"
    ELSE IF ~(required_columns \subseteq p.columns) THEN "Missing required columns"
    ELSE IF \E i \in 1..Len(p.rows) : ~PrizeValueCell(p.rows[i].pv).ok
         THEN "Error converting Prize Value"
    ELSE "none"

\* C9: for every game that fails one of the three validation checks, the
\* only message printed is the one of the first failing check in the stated
\* order, and the game is not collected.
C9_ValidationOrder ==
    \A i \in Processed :
        ExpectedReason(PageOf(i)) # "none" =>
            /\ DiagnosticsOf(i) = <<ExpectedReason(PageOf(i))>>
            /\ ~InPortfolio(i)

\* C9 witness: game 1 lacks the top prize key and a required column and has
\* an unconvertible prize value; it was reported as lacking the top prize.
C9_Witness ==
    /\ item >= 2
    /\ "Top Prize" \notin PageOf(1).keys
    /\ ~(required_columns \subseteq PageOf(1).columns)
    /\ DiagnosticsOf(1) = <<"Could not find Top Prize">>

\* The (identifier, error) pairs the script holds in memory: none.  Lines
\* 108-112 create games_data only, and every handler prints and continues.
failure_list == <<>>

InFailureList(i) == \E j \in 1..Len(failure_list) : failure_list[j][1] = i

\* C10 as stated: after the loop the failure list holds exactly one pair for
\* each excluded game and none for the collected ones.
C10_Original ==
    item > urls =>
        \A i \in 1..urls :
            /\ InPortfolio(i) => ~InFailureList(i)
            /\ ~InPortfolio(i) =>
                   Cardinality({j \in 1..Len(failure_list) : failure_list[j][1] = i}) = 1

\* C10 amended: no failure list is kept; instead each excluded game has had
\* exactly one diagnostic printed by its handler and a collected game none,
\* so every processed game is either in games_data or in the printed
\* diagnostics, never in both and never in neither.
C10_Amended ==
    /\ \A i \in Processed :
           /\ InPortfolio(i) => DiagnosticsOf(i) = <<>>
           /\ ~InPortfolio(i) => Len(DiagnosticsOf(i)) = 1
    /\ \A i \in 1..urls : i \notin Processed => (~InPortfolio(i) /\ DiagnosticsOf(i) = <<>>)

\* C10 witness: the loop is over with game 1 excluded (one diagnostic) and
\* game 2 collected (none).
C10_Witness ==
    /\ item > urls
    /\ urls = 2
    /\ ~InPortfolio(1)
    /\ DiagnosticsOf(1) = <<"Missing required columns">>
    /\ InPortfolio(2)
    /\ DiagnosticsOf(2) = <<>>

====
